---- MODULE Spec2Model ----
(***************************************************************************)
(* Model of rspeaker (src/listener.py): one listening session             *)
(* (run_listen_session and its recognizer callback on_result) and the      *)
(* session loop of main that calls it.                                     *)
(*                                                                         *)
(* A transcript is a sequence of characters, each Hangul syllable written  *)
(* as its romanisation ("yeo" "bo" "ge" is the wake word), so that Python's*)
(* substring test (`in`), rstrip() and endswith() are computed and not     *)
(* assumed.  Time is an integer number of seconds.  The recognizer         *)
(* delivers its callbacks on the main queue (the source never sets         *)
(* another queue), that is, while the poll loop is inside                  *)
(* NSRunLoop.runMode_beforeDate_; one run-loop slice may deliver several   *)
(* callbacks.  SIGINT is raised by Python as KeyboardInterrupt at whatever *)
(* statement the main thread is executing.                                 *)
(***************************************************************************)
EXTENDS Integers, Sequences, FiniteSets

VARIABLES
    pc,         \* position of the main thread inside run_listen_session
    clock,      \* time.time(), counted from the entry of the current session
    timeout,    \* the timeout parameter of run_listen_session
    ctx,        \* the ctx dictionary shared with on_result
    engine,     \* AVAudioEngine: "idle", "running", "stopped"
    tap,        \* TRUE while the input tap is installed on bus 0
    request,    \* recognition request: "open", "ended"
    task,       \* recognition task: "none", "running", "cancelled"
    stdout,     \* what the session has printed, in order
    delivered,  \* the callbacks the recognizer has delivered, in order
    sigint,     \* TRUE once a SIGINT has been delivered
    ret,        \* the pair returned by run_listen_session
    mpc,        \* position of main in its session loop
    handled,    \* what main has done since the session returned, in order
    tts,        \* the TTS engine: "idle", "speaking"
    pending,    \* news handler: items fetched, then summaries left to speak
    cb,         \* on_result running on a thread of its own: statement, text
    slice_end   \* the date the current run-loop slice runs to

vars == <<pc, clock, timeout, ctx, engine, tap, request, task, stdout,
          delivered, sigint, ret, mpc, handled, tts, pending, cb, slice_end>>

\* the variables of main
mainVars == <<mpc, handled, tts, pending>>

----------------------------------------------------------------------------
(* Bounds of the model *)

MaxCallbacks == 2

TickStep == 6

MaxClock == 48

----------------------------------------------------------------------------
(* Program constants *)

DEFAULT_TIMEOUT == 12

EXTENDED_TIMEOUT == 30

WAKE_WORDS == { <<"yeo", "bo", "ge">>, <<"yeo", "bo", "kke">>, <<"yeo", "bo", " ", "ge">> }

STOP_SUFFIX == <<"jwo">>

NEWS_TRIGGERS == { <<"o", "neul", " ", "nyu", "seu">>, <<"o", "neul", "ui", " ", "nyu", "seu">> }

TIME_TRIGGERS == { <<"myeot", " ", "si", "ya">>, <<"myeot", "si", "ya">>,
                   <<"myeot", " ", "si", " ", "ya">>, <<"myeot", "si", " ", "ya">> }

DATE_TRIGGERS == { <<"myeot", " ", "il", "i", "ya">>, <<"myeot", "il", "i", "ya">>,
                   <<"myeo", "chil", "i", "ya">>, <<"myeo", " ", "chil", "i", "ya">> }

WEATHER_TRIGGERS == { <<"o", "neul", " ", "nal", "ssi">>,
                      <<"nal", "ssi", " ", "al", "ryeo", " ", "jwo">>,
                      <<"nal", "ssi">>, <<"myeot", " ", "do", "ya">> }

----------------------------------------------------------------------------
(* Python string operations used by on_result *)

\* p in s
IsSubstr(p, s) ==
    \E i \in 0..(Len(s) - Len(p)) : SubSeq(s, i + 1, i + Len(p)) = p

\* any(t in text for t in phrases)
AnyIn(phrases, text) == \E p \in phrases : IsSubstr(p, text)

Whitespace == {" "}

\* rstrip that strips nothing
rstripNothing(s) == s

RECURSIVE rstrip(_)
rstrip(s) ==
    IF s = <<>> THEN s
    ELSE IF s[Len(s)] \in Whitespace THEN rstrip(SubSeq(s, 1, Len(s) - 1))
    ELSE s

endswith(s, suffix) ==
    /\ Len(s) >= Len(suffix)
    /\ SubSeq(s, Len(s) - Len(suffix) + 1, Len(s)) = suffix

----------------------------------------------------------------------------
(* Inputs: the transcripts the recognizer may report, the timeout          *)
(* arguments a caller may pass                                             *)

Hello == <<"an", "nyeong">>

Texts ==
    { Hello,
      <<"yeo", "bo", "ge">>,
      <<"yeo", "bo", " ", "ge", " ", "an", "nyeong">>,
      <<"o", "neul", " ", "nyu", "seu">>,
      <<"o", "neul", "ui", " ", "nyu", "seu", " ", "deul", "ryeo", "jwo">>,
      <<"myeot", "si", "ya">>,
      <<"myeot", "il", "i", "ya", " ", "nal", "ssi">>,
      <<"myeo", "chil", "i", "ya">>,
      <<"nal", "ssi", " ", "al", "ryeo", " ", "jwo">>,
      <<"yeo", "bo", "ge", " ", "o", "neul", " ", "nal", "ssi">>,
      <<"kkeo", "jwo">>,
      <<"kkeo", "jwo", " ">>,
      <<"jwo", " ", "an", "nyeong">> }

TimeoutArgs == { DEFAULT_TIMEOUT, EXTENDED_TIMEOUT + TickStep }

Reasons == { "timeout", "error", "command", "news", "time", "date",
             "weather", "interrupt" }

----------------------------------------------------------------------------
(* What the session prints *)

Shown(text) == [ev |-> "text", text |-> text, n |-> 0]

Extended == [ev |-> "extended", text |-> <<>>, n |-> EXTENDED_TIMEOUT]

Newline == [ev |-> "newline", text |-> <<>>, n |-> 0]

Elapsed(n) == [ev |-> "elapsed", text |-> <<>>, n |-> n]

EngineError == [ev |-> "engine_error", text |-> <<>>, n |-> 0]

----------------------------------------------------------------------------
(* on_result *)

\* Accepted without the test for an empty transcript
AcceptedEvenIfEmpty(c, text) == text # c.text

\* Accepted without the test for a repeated transcript
AcceptedEvenIfRepeated(c, text) == text # <<>>

\* the snapshot is neither empty nor a repetition of ctx["text"]
Accepted(c, text) == ~(text = <<>> \/ text = c.text)

\* WakeDetected without the test of ctx["activated"]
WakeDetectedAgain(c, text) == AnyIn(WAKE_WORDS, text)

\* the wake-word test
WakeDetected(c, text) == ~c.activated /\ AnyIn(WAKE_WORDS, text)

\* the three assignments made on a wake word
Activate(c, now) ==
    [c EXCEPT !.activated = TRUE, !.t_activate = <<now>>,
              !.timeout = EXTENDED_TIMEOUT]

\* MatchReason with the stop-suffix test moved to the front of the chain
MatchReasonSuffixFirst(text) ==
    IF endswith(rstrip(text), STOP_SUFFIX) THEN "command"
    ELSE IF AnyIn(NEWS_TRIGGERS, text) THEN "news"
    ELSE IF AnyIn(TIME_TRIGGERS, text) THEN "time"
    ELSE IF AnyIn(DATE_TRIGGERS, text) THEN "date"
    ELSE IF AnyIn(WEATHER_TRIGGERS, text) THEN "weather"
    ELSE "none"

\* the chain of trigger tests; "none" when on_result falls off its end
MatchReason(text) ==
    IF AnyIn(NEWS_TRIGGERS, text) THEN "news"
    ELSE IF AnyIn(TIME_TRIGGERS, text) THEN "time"
    ELSE IF AnyIn(DATE_TRIGGERS, text) THEN "date"
    ELSE IF AnyIn(WEATHER_TRIGGERS, text) THEN "weather"
    ELSE IF endswith(rstrip(text), STOP_SUFFIX) THEN "command"
    ELSE "none"

\* OnText with the trigger tests skipped for the transcript that activates
OnTextWakeOnly(c, text, now) ==
    IF ~Accepted(c, text) THEN c
    ELSE LET c1 == [c EXCEPT !.text = text]
             r  == MatchReason(text)
         IN  IF WakeDetected(c1, text) THEN Activate(c1, now)
             ELSE IF r = "none" THEN c1
             ELSE [c1 EXCEPT !.stop = TRUE, !.reason = r]

\* ctx after on_result(result, None) with a transcript text, at time now
OnText(c, text, now) ==
    IF ~Accepted(c, text) THEN c
    ELSE LET c1 == [c EXCEPT !.text = text]
             c2 == IF WakeDetected(c1, text) THEN Activate(c1, now) ELSE c1
             r  == MatchReason(text)
         IN  IF r = "none" THEN c2
             ELSE [c2 EXCEPT !.stop = TRUE, !.reason = r]

\* what on_result(result, None) prints for that transcript
OnTextPrints(c, text) ==
    IF ~Accepted(c, text) THEN <<>>
    ELSE <<Shown(text)>>
         \o (IF WakeDetected(c, text) THEN <<Extended>> ELSE <<>>)
         \o (IF MatchReason(text) # "none" THEN <<Newline>> ELSE <<>>)

\* ctx after on_result(None, error)
OnError(c) == [c EXCEPT !.stop = TRUE, !.reason = "error"]

----------------------------------------------------------------------------
(* The recognizer *)

Snapshot(text) == [kind |-> "result", text |-> text]

ErrorReport == [kind |-> "error", text |-> <<>>]

NoResult == [kind |-> "none", text |-> <<>>]

\* the task reports until it fails or is cancelled, and at most
\* MaxCallbacks times
Reporting ==
    /\ pc = "pump"
    /\ task = "running"
    /\ Len(delivered) < MaxCallbacks
    /\ \A i \in 1..Len(delivered) : delivered[i].kind # "error"

----------------------------------------------------------------------------
(* The deadline test of the poll loop *)

\* Expired with the deadline still measured from the session start after
\* activation
ExpiredFromStart(c, now) == now - c.t_start >= c.timeout

\* Expired with the deadline test skipped once the session is activated
ExpiredBeforeActivationOnly(c, now) ==
    IF c.activated
    THEN FALSE
    ELSE now - c.t_start >= c.timeout

Expired(c, now) ==
    IF c.activated
    THEN now - c.t_activate[1] >= EXTENDED_TIMEOUT
    ELSE now - c.t_start >= c.timeout

\* the duration printed when the loop breaks on the deadline
ElapsedShown(c) == IF c.activated THEN EXTENDED_TIMEOUT ELSE c.timeout

----------------------------------------------------------------------------
(* Initial state: run_listen_session has built engine, request and ctx *)

Init ==
    /\ pc = "task"
    /\ clock = 0
    /\ timeout \in TimeoutArgs
    /\ ctx = [text |-> <<>>, activated |-> FALSE, stop |-> FALSE,
              reason |-> "timeout", t_start |-> clock, t_activate |-> <<>>,
              timeout |-> timeout]
    /\ engine = "idle"
    /\ tap = FALSE
    /\ request = "open"
    /\ task = "none"
    /\ stdout = <<>>
    /\ delivered = <<>>
    /\ sigint = FALSE
    /\ ret = [text |-> <<>>, reason |-> "unset"]
    /\ mpc = "session"
    /\ handled = <<>>
    /\ tts = "idle"
    /\ pending = 0
    /\ cb = [at |-> "idle", text |-> <<>>]
    /\ slice_end = 0

----------------------------------------------------------------------------
(* Steps of the main thread *)

CreateTask ==
    /\ pc = "task"
    /\ task' = "running"
    /\ pc' = "tap"
    /\ UNCHANGED <<clock, timeout, ctx, engine, tap, request, stdout,
                   delivered, sigint, ret>>
    /\ UNCHANGED <<mainVars, cb, slice_end>>

InstallTap ==
    /\ pc = "tap"
    /\ tap' = TRUE
    /\ pc' = "start"
    /\ UNCHANGED <<clock, timeout, ctx, engine, request, task, stdout,
                   delivered, sigint, ret>>
    /\ UNCHANGED <<mainVars, cb, slice_end>>

StartEngine(ok) ==
    /\ pc = "start"
    /\ IF ok
       THEN /\ engine' = "running"
            /\ pc' = "loop"
            /\ UNCHANGED <<stdout, ret>>
       ELSE /\ stdout' = Append(stdout, EngineError)
            /\ ret' = [text |-> <<>>, reason |-> "error"]
            /\ pc' = "returned"
            /\ UNCHANGED engine
    /\ UNCHANGED <<clock, timeout, ctx, tap, request, task, delivered,
                   sigint>>
    /\ UNCHANGED <<mainVars, cb, slice_end>>

\* lines 625-635: the while condition and the deadline test
PollTest ==
    /\ pc = "loop"
    /\ IF ctx.stop
       THEN pc' = "stop_engine" /\ UNCHANGED stdout
       ELSE IF ctx.activated /\ ctx.t_activate = <<>>
            \* now - None raises TypeError, which nothing catches
            THEN pc' = "raised" /\ UNCHANGED stdout
       ELSE IF Expired(ctx, clock)
            THEN /\ stdout' = Append(stdout, Elapsed(ElapsedShown(ctx)))
                 /\ pc' = "stop_engine"
            ELSE pc' = "pump" /\ UNCHANGED stdout
    /\ UNCHANGED <<clock, timeout, ctx, engine, tap, request, task,
                   delivered, sigint, ret>>
    /\ UNCHANGED <<mainVars, cb>>

\* LoopHead with the deadline tested before ctx["stop"] and recorded as the
\* outcome
LoopHeadDeadlineFirst ==
    /\ pc = "loop"
    /\ IF Expired(ctx, clock)
       THEN /\ stdout' = Append(stdout, Elapsed(ElapsedShown(ctx)))
            /\ ctx' = [ctx EXCEPT !.reason = "timeout"]
            /\ pc' = "stop_engine"
       ELSE /\ pc' = (IF ctx.stop THEN "stop_engine" ELSE "pump")
            /\ UNCHANGED <<stdout, ctx>>
    /\ UNCHANGED <<clock, timeout, engine, tap, request, task,
                   delivered, sigint, ret>>
    /\ UNCHANGED <<mainVars, cb, slice_end>>

\* one pass of the poll loop with the run-loop slice of any length
LoopHead == PollTest /\ UNCHANGED slice_end

RunLoopReturn ==
    /\ pc = "pump"
    /\ pc' = "loop"
    /\ UNCHANGED <<clock, timeout, ctx, engine, tap, request, task, stdout,
                   delivered, sigint, ret>>
    /\ UNCHANGED <<mainVars, cb, slice_end>>

\* KeyboardInterrupt handled inside the loop, which then goes on polling
KeyboardInterruptKeepsPolling ==
    /\ pc \notin {"returned", "raised"}
    /\ sigint' = TRUE
    /\ IF pc \in {"loop", "pump"}
       THEN /\ ctx' = [ctx EXCEPT !.reason = "interrupt"]
            /\ stdout' = Append(stdout, Newline)
            /\ pc' = "loop"
       ELSE /\ pc' = "raised"
            /\ UNCHANGED <<ctx, stdout>>
    /\ UNCHANGED <<clock, timeout, engine, tap, request, task, delivered,
                   ret>>
    /\ UNCHANGED <<mainVars, cb, slice_end>>

KeyboardInterrupt ==
    /\ pc \notin {"returned", "raised"}
    /\ sigint' = TRUE
    /\ IF pc \in {"loop", "pump"}
       THEN /\ ctx' = [ctx EXCEPT !.reason = "interrupt"]
            /\ stdout' = Append(stdout, Newline)
            /\ pc' = "stop_engine"
       ELSE /\ pc' = "raised"
            /\ UNCHANGED <<ctx, stdout>>
    /\ UNCHANGED <<clock, timeout, engine, tap, request, task, delivered,
                   ret>>
    /\ UNCHANGED <<mainVars, cb, slice_end>>

StopEngine ==
    /\ pc = "stop_engine"
    /\ engine' = "stopped"
    /\ pc' = "remove_tap"
    /\ UNCHANGED <<clock, timeout, ctx, tap, request, task, stdout,
                   delivered, sigint, ret>>
    /\ UNCHANGED <<mainVars, cb, slice_end>>

RemoveTap ==
    /\ pc = "remove_tap"
    /\ tap' = FALSE
    /\ pc' = "end_audio"
    /\ UNCHANGED <<clock, timeout, ctx, engine, request, task, stdout,
                   delivered, sigint, ret>>
    /\ UNCHANGED <<mainVars, cb, slice_end>>

EndAudio ==
    /\ pc = "end_audio"
    /\ request' = "ended"
    /\ pc' = "cancel"
    /\ UNCHANGED <<clock, timeout, ctx, engine, tap, task, stdout,
                   delivered, sigint, ret>>
    /\ UNCHANGED <<mainVars, cb, slice_end>>

CancelTask ==
    /\ pc = "cancel"
    /\ task' = "cancelled"
    /\ pc' = "return"
    /\ UNCHANGED <<clock, timeout, ctx, engine, tap, request, stdout,
                   delivered, sigint, ret>>
    /\ UNCHANGED <<mainVars, cb, slice_end>>

Return ==
    /\ pc = "return"
    /\ ret' = [text |-> ctx.text, reason |-> ctx.reason]
    /\ pc' = "returned"
    /\ UNCHANGED <<clock, timeout, ctx, engine, tap, request, task, stdout,
                   delivered, sigint>>
    /\ UNCHANGED <<mainVars, cb, slice_end>>

----------------------------------------------------------------------------
(* Callbacks delivered inside one run-loop slice, and the passing of time *)

OnResultText(text) ==
    /\ Reporting
    /\ ctx' = OnText(ctx, text, clock)
    /\ stdout' = stdout \o OnTextPrints(ctx, text)
    /\ delivered' = Append(delivered, Snapshot(text))
    /\ UNCHANGED <<pc, clock, timeout, engine, tap, request, task, sigint,
                   ret>>
    /\ UNCHANGED <<mainVars, cb, slice_end>>

OnResultError ==
    /\ Reporting
    /\ ctx' = OnError(ctx)
    /\ delivered' = Append(delivered, ErrorReport)
    /\ UNCHANGED <<pc, clock, timeout, engine, tap, request, task, stdout,
                   sigint, ret>>
    /\ UNCHANGED <<mainVars, cb, slice_end>>

OnResultNone ==
    /\ Reporting
    /\ delivered' = Append(delivered, NoResult)
    /\ UNCHANGED <<pc, clock, timeout, ctx, engine, tap, request, task,
                   stdout, sigint, ret>>
    /\ UNCHANGED <<mainVars, cb, slice_end>>

Tick ==
    /\ pc \in {"start", "pump"}
    /\ clock + TickStep <= MaxClock
    /\ clock' = clock + TickStep
    /\ UNCHANGED <<pc, timeout, ctx, engine, tap, request, task, stdout,
                   delivered, sigint, ret>>
    /\ UNCHANGED <<mainVars, cb, slice_end>>

----------------------------------------------------------------------------

Next ==
    \/ CreateTask
    \/ InstallTap
    \/ \E ok \in BOOLEAN : StartEngine(ok)
    \/ LoopHead
    \/ RunLoopReturn
    \/ KeyboardInterrupt
    \/ StopEngine
    \/ RemoveTap
    \/ EndAudio
    \/ CancelTask
    \/ Return
    \/ \E text \in Texts \cup {<<>>} : OnResultText(text)
    \/ OnResultError
    \/ OnResultNone
    \/ Tick

Spec == Init /\ [][Next]_vars

TypeOK ==
    /\ pc \in {"task", "tap", "start", "loop", "pump", "stop_engine",
               "remove_tap", "end_audio", "cancel", "return", "returned",
               "raised"}
    /\ clock \in 0..MaxClock
    /\ timeout \in TimeoutArgs
    /\ ctx.text \in Texts \cup {<<>>}
    /\ ctx.activated \in BOOLEAN
    /\ ctx.stop \in BOOLEAN
    /\ ctx.reason \in Reasons
    /\ ctx.t_start = 0
    /\ Len(ctx.t_activate) <= 1
    /\ ctx.timeout \in TimeoutArgs \cup {EXTENDED_TIMEOUT}
    /\ engine \in {"idle", "running", "stopped"}
    /\ tap \in BOOLEAN
    /\ request \in {"open", "ended"}
    /\ task \in {"none", "running", "cancelled"}
    /\ Len(delivered) <= MaxCallbacks
    /\ sigint \in BOOLEAN
    /\ ret.reason \in Reasons \cup {"unset"}

----------------------------------------------------------------------------
(* main: the session loop (lines 728-803)                                  *)

\* news items fetch_news may return in the model (NEWS_COUNT caps the real one)
MaxItems == 2

\* what the TTS engine can be asked to say, by the statement that asks
Speeches == {"say_time", "say_date", "say_news_intro", "say_news_all",
             "say_news_item", "say_weather", "say_weather_unavailable"}

\* the other effects of the handlers
Effects == {"print_news_failed", "print_final", "print_interrupted",
            "print_retry", "sleep", "print_recognized"}

\* the if/elif chain on the returned reason
BranchNoInterrupt(reason) ==
    IF reason \in {"time", "date", "news", "weather", "command", "error"}
    THEN reason ELSE "other"

Branch(reason) ==
    IF reason \in {"time", "date", "news", "weather", "command", "interrupt",
                   "error"}
    THEN reason ELSE "other"

\* how each branch ends: break leaves the loop, everything else iterates
AfterBranchErrorBreaks(branch) ==
    IF branch \in {"command", "interrupt", "error"} THEN "exited" ELSE "loop_top"

AfterBranch(branch) ==
    IF branch \in {"command", "interrupt"} THEN "exited" ELSE "loop_top"

\* the positions of main at a call of speak_korean or speak_weather_info
SpeakPositions == {"time", "date", "news_intro", "news_all", "news_item",
                   "news_weather", "weather"}

\* what is said there; speak_weather_info says the weather it fetched or
\* that it could not fetch it
Utterances(at) ==
    CASE at = "time"         -> {"say_time"}
      [] at = "date"         -> {"say_date"}
      [] at = "news_intro"   -> {"say_news_intro"}
      [] at = "news_all"     -> {"say_news_all"}
      [] at = "news_item"    -> {"say_news_item"}
      [] at = "news_weather" -> {"say_weather", "say_weather_unavailable"}
      [] at = "weather"      -> {"say_weather", "say_weather_unavailable"}

\* where main goes on when the speech has been played
AfterSpeak(at, left) ==
    CASE at = "time"         -> AfterBranch("time")
      [] at = "date"         -> AfterBranch("date")
      [] at = "news_intro"   -> "news_summarize"
      [] at = "news_all"     -> "news_weather"
      [] at = "news_item"    -> IF left > 1 THEN "news_item" ELSE "news_weather"
      [] at = "news_weather" -> AfterBranch("news")
      [] at = "weather"      -> AfterBranch("weather")

\* the session as main calls it: run_listen_session(recognizer)
InitMain == Init /\ timeout = DEFAULT_TIMEOUT

sessionVars == <<pc, clock, timeout, ctx, engine, tap, request, task, stdout,
                 delivered, sigint, ret, slice_end>>

\* line 729 returns: main tests the reason
Dispatch ==
    /\ mpc = "session"
    /\ pc = "returned"
    /\ mpc' = Branch(ret.reason)
    /\ UNCHANGED <<sessionVars, handled, tts, pending, cb>>

\* speak_korean is called and hands the text to the engine
SpeakBeginAndGoOn ==
    /\ mpc \in SpeakPositions
    /\ tts = "idle"
    /\ \E u \in Utterances(mpc) : handled' = Append(handled, u)
    /\ tts' = "speaking"
    /\ mpc' = AfterSpeak(mpc, pending)
    /\ pending' = IF mpc \in {"news_item", "news_all"} THEN pending - 1
                                                       ELSE pending
    /\ UNCHANGED <<sessionVars, cb>>

SpeakBegin ==
    /\ mpc \in SpeakPositions
    /\ tts = "idle"
    /\ \E u \in Utterances(mpc) : handled' = Append(handled, u)
    /\ tts' = "speaking"
    /\ UNCHANGED <<sessionVars, mpc, pending, cb>>

\* the engine has synthesised and played the audio: speak returns
SpeakEnd ==
    /\ mpc \in SpeakPositions
    /\ tts = "speaking"
    /\ tts' = "idle"
    /\ mpc' = AfterSpeak(mpc, pending)
    /\ pending' = IF mpc \in {"news_item", "news_all"} THEN pending - 1
                                                       ELSE pending
    /\ UNCHANGED <<sessionVars, handled, cb>>

\* the engine raises (synthesis failed): nothing in main catches it
SpeakRaises ==
    /\ mpc \in SpeakPositions
    /\ tts = "speaking"
    /\ tts' = "idle"
    /\ mpc' = "raised"
    /\ UNCHANGED <<sessionVars, handled, pending, cb>>

\* lines 758-760, 782: fetch_news returns the items, or none
FetchNews ==
    /\ mpc = "news"
    /\ \E n \in 0..MaxItems :
         IF n = 0
         THEN /\ handled' = Append(handled, "print_news_failed")
              /\ mpc' = AfterBranch("news")
              /\ UNCHANGED pending
         ELSE /\ mpc' = "news_intro"
              /\ pending' = n
              /\ UNCHANGED handled
    /\ UNCHANGED <<sessionVars, tts, cb>>

\* lines 763-769: summarize_news_bulk returns one summary per item, or
\* the whole answer as a single one
SummarizeNews ==
    /\ mpc = "news_summarize"
    /\ \E k \in {pending, 1} :
         /\ mpc' = IF k = 1 /\ pending > 1 THEN "news_all" ELSE "news_item"
         /\ pending' = k
    /\ UNCHANGED <<sessionVars, handled, tts, cb>>

\* lines 789-792
CommandBranch ==
    /\ mpc = "command"
    /\ handled' = Append(handled, "print_final")
    /\ mpc' = AfterBranch("command")
    /\ UNCHANGED <<sessionVars, tts, pending, cb>>

\* lines 793-795
InterruptBranch ==
    /\ mpc = "interrupt"
    /\ handled' = Append(handled, "print_interrupted")
    /\ mpc' = AfterBranch("interrupt")
    /\ UNCHANGED <<sessionVars, tts, pending, cb>>

\* lines 796-798
ErrorBranch ==
    /\ mpc = "error"
    /\ handled' = handled \o <<"print_retry", "sleep">>
    /\ mpc' = AfterBranch("error")
    /\ UNCHANGED <<sessionVars, tts, pending, cb>>

\* lines 799-803
OtherBranch ==
    /\ mpc = "other"
    /\ handled' = IF ret.text # <<>> THEN Append(handled, "print_recognized")
                                     ELSE handled
    /\ mpc' = AfterBranch("other")
    /\ UNCHANGED <<sessionVars, tts, pending, cb>>

\* the context run_listen_session builds at its entry
FreshContext(now, limit) ==
    [text |-> <<>>, activated |-> FALSE, t_start |-> now, t_activate |-> <<>>,
     timeout |-> limit, stop |-> FALSE, reason |-> "timeout"]

\* a session that starts from what the last one left in its context
StartSessionKeepsContext ==
    /\ mpc = "loop_top"
    /\ mpc' = "session"
    /\ pc' = "task"
    /\ clock' = 0
    /\ ctx' = [ctx EXCEPT !.text = <<>>, !.stop = FALSE, !.reason = "timeout"]
    /\ engine' = "idle"
    /\ tap' = FALSE
    /\ request' = "open"
    /\ task' = "none"
    /\ stdout' = <<>>
    /\ delivered' = <<>>
    /\ ret' = [text |-> <<>>, reason |-> "unset"]
    /\ handled' = <<>>
    /\ pending' = 0
    /\ UNCHANGED <<timeout, sigint, tts, cb, slice_end>>

\* line 729 again: the next call of run_listen_session, with new objects
StartSession ==
    /\ mpc = "loop_top"
    /\ mpc' = "session"
    /\ pc' = "task"
    /\ clock' = 0
    /\ ctx' = FreshContext(0, timeout)
    /\ engine' = "idle"
    /\ tap' = FALSE
    /\ request' = "open"
    /\ task' = "none"
    /\ stdout' = <<>>
    /\ delivered' = <<>>
    /\ ret' = [text |-> <<>>, reason |-> "unset"]
    /\ handled' = <<>>
    /\ pending' = 0
    /\ UNCHANGED <<timeout, sigint, tts, cb, slice_end>>

\* SIGINT while main is outside run_listen_session: nothing catches it
MainInterrupt ==
    /\ mpc \notin {"session", "exited", "raised"}
    /\ sigint' = TRUE
    /\ tts' = "idle"
    /\ mpc' = "raised"
    /\ UNCHANGED <<pc, clock, timeout, ctx, engine, tap, request, task, stdout,
                   delivered, ret, handled, pending, cb, slice_end>>

NextMain ==
    \/ Next
    \/ Dispatch
    \/ SpeakBegin
    \/ SpeakEnd
    \/ SpeakRaises
    \/ FetchNews
    \/ SummarizeNews
    \/ CommandBranch
    \/ InterruptBranch
    \/ ErrorBranch
    \/ OtherBranch
    \/ StartSession
    \/ MainInterrupt

SpecMain == InitMain /\ [][NextMain]_vars

TypeOKMain ==
    /\ TypeOK
    /\ mpc \in SpeakPositions \cup {"session", "news", "news_summarize",
                                    "command", "interrupt", "error", "other",
                                    "loop_top", "exited", "raised"}
    /\ \A i \in DOMAIN handled : handled[i] \in Speeches \cup Effects
    /\ tts \in {"idle", "speaking"}
    /\ pending \in 0..MaxItems

----------------------------------------------------------------------------
(* on_result called on a thread of the recognizer: its statements          *)
(* interleave with those of run_listen_session, one statement at a time    *)

\* the recognizer may call on_result: its task is live, the call before has
\* returned, and it has not reported an error; it has transcripts only of
\* audio that the running engine captured
ThreadReporting ==
    /\ cb.at = "idle"
    /\ task = "running"
    /\ Len(delivered) < MaxCallbacks
    /\ \A i \in 1..Len(delivered) : delivered[i].kind # "error"

\* lines 559-569: the tests at the entry of on_result, up to the statement
\* that writes first
CbEntry(c, e) ==
    IF e.kind = "error" THEN "error_stop"
    ELSE IF e.kind = "none" THEN "idle"
    ELSE IF ~Accepted(c, e.text) THEN "idle"
    ELSE "text"

CbCall(e) ==
    /\ ThreadReporting
    /\ e.kind = "result" => engine = "running"
    /\ delivered' = Append(delivered, e)
    /\ cb' = IF CbEntry(ctx, e) \in {"idle", "error_stop"}
             THEN [at |-> CbEntry(ctx, e), text |-> <<>>]
             ELSE [at |-> "text", text |-> e.text]
    /\ UNCHANGED <<pc, clock, timeout, ctx, engine, tap, request, task, stdout,
                   sigint, ret, mainVars, slice_end>>

\* line 571
CbSetText ==
    /\ cb.at = "text"
    /\ ctx' = [ctx EXCEPT !.text = cb.text]
    /\ cb' = [cb EXCEPT !.at = "show"]
    /\ UNCHANGED <<pc, clock, timeout, engine, tap, request, task, stdout,
                   delivered, sigint, ret, mainVars, slice_end>>

\* lines 573-576: the transcript is shown, then the wake word is tested
CbShow ==
    /\ cb.at = "show"
    /\ stdout' = Append(stdout, Shown(cb.text))
    /\ cb' = [cb EXCEPT !.at = IF WakeDetected(ctx, cb.text) THEN "activated"
                                                             ELSE "match"]
    /\ UNCHANGED <<pc, clock, timeout, ctx, engine, tap, request, task,
                   delivered, sigint, ret, mainVars, slice_end>>

\* line 577
CbSetActivated ==
    /\ cb.at = "activated"
    /\ ctx' = [ctx EXCEPT !.activated = TRUE]
    /\ cb' = [cb EXCEPT !.at = "t_activate"]
    /\ UNCHANGED <<pc, clock, timeout, engine, tap, request, task, stdout,
                   delivered, sigint, ret, mainVars, slice_end>>

\* line 578
CbSetTActivate ==
    /\ cb.at = "t_activate"
    /\ ctx' = [ctx EXCEPT !.t_activate = <<clock>>]
    /\ cb' = [cb EXCEPT !.at = "timeout"]
    /\ UNCHANGED <<pc, clock, timeout, engine, tap, request, task, stdout,
                   delivered, sigint, ret, mainVars, slice_end>>

\* line 579
CbSetTimeout ==
    /\ cb.at = "timeout"
    /\ ctx' = [ctx EXCEPT !.timeout = EXTENDED_TIMEOUT]
    /\ cb' = [cb EXCEPT !.at = "extended"]
    /\ UNCHANGED <<pc, clock, timeout, engine, tap, request, task, stdout,
                   delivered, sigint, ret, mainVars, slice_end>>

\* line 580
CbPrintExtended ==
    /\ cb.at = "extended"
    /\ stdout' = Append(stdout, Extended)
    /\ cb' = [cb EXCEPT !.at = "match"]
    /\ UNCHANGED <<pc, clock, timeout, ctx, engine, tap, request, task,
                   delivered, sigint, ret, mainVars, slice_end>>

\* lines 582-607: the tests of the trigger chain and the print() of the
\* branch taken; on_result returns when none is
CbMatch ==
    /\ cb.at = "match"
    /\ IF MatchReason(cb.text) = "none"
       THEN cb' = [at |-> "idle", text |-> <<>>] /\ UNCHANGED stdout
       ELSE cb' = [cb EXCEPT !.at = "stop"] /\ stdout' = Append(stdout, Newline)
    /\ UNCHANGED <<pc, clock, timeout, ctx, engine, tap, request, task,
                   delivered, sigint, ret, mainVars, slice_end>>

\* ctx["stop"] = True, line 560 or the one of the branch taken
CbSetStop ==
    /\ cb.at \in {"stop", "error_stop"}
    /\ ctx' = [ctx EXCEPT !.stop = TRUE]
    /\ cb' = [cb EXCEPT !.at = IF cb.at = "stop" THEN "reason"
                                                 ELSE "error_reason"]
    /\ UNCHANGED <<pc, clock, timeout, engine, tap, request, task, stdout,
                   delivered, sigint, ret, mainVars, slice_end>>

\* ctx["reason"] = ..., line 561 or the one of the branch taken
CbSetReason ==
    /\ cb.at \in {"reason", "error_reason"}
    /\ ctx' = [ctx EXCEPT !.reason = IF cb.at = "reason"
                                     THEN MatchReason(cb.text) ELSE "error"]
    /\ cb' = [at |-> "idle", text |-> <<>>]
    /\ UNCHANGED <<pc, clock, timeout, engine, tap, request, task, stdout,
                   delivered, sigint, ret, mainVars, slice_end>>

NextThreads ==
    \/ CreateTask
    \/ InstallTap
    \/ \E ok \in BOOLEAN : StartEngine(ok)
    \/ LoopHead
    \/ RunLoopReturn
    \/ KeyboardInterrupt
    \/ StopEngine
    \/ RemoveTap
    \/ EndAudio
    \/ CancelTask
    \/ Return
    \/ Tick
    \/ \E e \in {Snapshot(text) : text \in Texts \cup {<<>>}}
                \cup {ErrorReport, NoResult} : CbCall(e)
    \/ CbSetText
    \/ CbShow
    \/ CbSetActivated
    \/ CbSetTActivate
    \/ CbSetTimeout
    \/ CbPrintExtended
    \/ CbMatch
    \/ CbSetStop
    \/ CbSetReason

SpecThreads == InitMain /\ [][NextThreads]_vars

----------------------------------------------------------------------------
(* The session with its run-loop slices timed (lines 624-640): the loop    *)
(* reads the clock, tests the deadline and lets the run loop run to a date *)
(* one slice ahead.  Time passes inside the slices; the statements         *)
(* between them take none.  The slice of the code is 0.1 s; the model's is *)
(* SliceLen seconds, in steps of Granule, both far below the timeouts.     *)

SliceLen == 6

Granule == SliceLen \div 3

\* the clock of this specification stops here, past every deadline
Horizon == DEFAULT_TIMEOUT + EXTENDED_TIMEOUT + 3 * SliceLen

\* the transcripts of this specification, one of each kind that matters to
\* the deadline: no wake word, the wake word, the wake word again in a
\* longer transcript, and a transcript that commits an outcome
SliceTexts ==
    { Hello,
      <<"yeo", "bo", "ge">>,
      <<"yeo", "bo", " ", "ge", " ", "an", "nyeong">>,
      <<"kkeo", "jwo">> }

\* line 625-640: the test, then NSDate.dateWithTimeIntervalSinceNow_
LoopHeadSlice ==
    /\ PollTest
    /\ slice_end' = IF pc' = "pump" THEN clock + SliceLen ELSE slice_end

\* time passes while the run loop waits
SliceTick ==
    /\ pc = "pump"
    /\ clock + Granule <= slice_end
    /\ clock + Granule <= Horizon
    /\ clock' = clock + Granule
    /\ UNCHANGED <<pc, timeout, ctx, engine, tap, request, task, stdout,
                   delivered, sigint, ret>>
    /\ UNCHANGED <<mainVars, cb, slice_end>>

\* runMode_beforeDate_ returns: it has handled an input source or reached
\* the date, and some time has passed since it was called
SliceReturn ==
    /\ pc = "pump"
    /\ clock > slice_end - SliceLen
    /\ pc' = "loop"
    /\ UNCHANGED <<clock, timeout, ctx, engine, tap, request, task, stdout,
                   delivered, sigint, ret>>
    /\ UNCHANGED <<mainVars, cb, slice_end>>

\* the steps of the main thread inside run_listen_session
SessionStep ==
    \/ CreateTask
    \/ InstallTap
    \/ \E ok \in BOOLEAN : StartEngine(ok)
    \/ LoopHeadSlice
    \/ SliceTick
    \/ SliceReturn
    \/ StopEngine
    \/ RemoveTap
    \/ EndAudio
    \/ CancelTask
    \/ Return

NextLive ==
    \/ SessionStep
    \/ KeyboardInterrupt
    \/ \E text \in SliceTexts : OnResultText(text)
    \/ OnResultError
    \/ OnResultNone

\* the main thread keeps running and the clock keeps advancing
SpecLive == InitMain /\ [][NextLive]_vars /\ WF_vars(SessionStep)

----------------------------------------------------------------------------
(* Vocabulary of the properties *)

Inputs == Texts \cup {<<>>}

\* some callback runs
Callback ==
    \/ \E text \in Inputs : OnResultText(text)
    \/ OnResultError
    \/ OnResultNone

\* the step is the callback that reports e
Delivers(e) == delivered' = Append(delivered, e)

\* the trigger categories and the stop suffix, highest priority first
Priority == <<"news", "time", "date", "weather", "command">>

MatchesKind(kind, text) ==
    CASE kind = "news"    -> AnyIn(NEWS_TRIGGERS, text)
      [] kind = "time"    -> AnyIn(TIME_TRIGGERS, text)
      [] kind = "date"    -> AnyIn(DATE_TRIGGERS, text)
      [] kind = "weather" -> AnyIn(WEATHER_TRIGGERS, text)
      [] kind = "command" -> endswith(rstrip(text), STOP_SUFFIX)

Hits(text) == { i \in DOMAIN Priority : MatchesKind(Priority[i], text) }

\* the highest-priority category the text matches, "none" if there is none
FirstMatch(text) ==
    IF Hits(text) = {} THEN "none"
    ELSE Priority[CHOOSE i \in Hits(text) : \A j \in Hits(text) : i <= j]

\* the transcripts of the snapshots among the delivered callbacks, in order
RECURSIVE SnapTexts(_)
SnapTexts(d) ==
    IF d = <<>> THEN <<>>
    ELSE IF Head(d).kind = "result"
         THEN <<Head(d).text>> \o SnapTexts(Tail(d))
         ELSE SnapTexts(Tail(d))

\* the last non-empty transcript of s that differs from its predecessor
RECURSIVE LastDistinct(_)
LastDistinct(s) ==
    IF s = <<>> THEN <<>>
    ELSE LET n    == Len(s)
             prev == IF n = 1 THEN <<>> ELSE s[n - 1]
         IN  IF s[n] # <<>> /\ s[n] # prev THEN s[n]
             ELSE LastDistinct(SubSeq(s, 1, n - 1))

\* number of transcript lines written to the terminal
CountShown(out) == Cardinality({ i \in DOMAIN out : out[i].ev = "text" })

\* number of times a non-empty transcript of s differs from the non-empty
\* transcript before it
RECURSIVE Changes(_, _)
Changes(s, last) ==
    IF s = <<>> THEN 0
    ELSE IF Head(s) = <<>> \/ Head(s) = last THEN Changes(Tail(s), last)
    ELSE 1 + Changes(Tail(s), Head(s))

ErrorDelivered == \E i \in DOMAIN delivered : delivered[i].kind = "error"

----------------------------------------------------------------------------
(* C1: first commit wins.  Once ctx["stop"] is true, no later recognizer   *)
(* callback and no later deadline check changes the outcome or lastText.   *)
C1_FirstCommitWins ==
    [][(ctx.stop /\ (Callback \/ LoopHead))
         => (ctx'.reason = ctx.reason /\ ctx'.text = ctx.text)]_vars

(* C2: error precedence.  An error reported before any trigger or command  *)
(* commit makes the outcome "error"; an error reported after such a commit *)
(* is ignored and the committed outcome stays.                             *)
C2_ErrorPrecedence ==
    [][OnResultError
         => ctx'.reason = (IF ctx.stop /\ ctx.reason \in {"news", "time", "date", "weather", "command"}
                           THEN ctx.reason ELSE "error")]_vars

(* C3: teardown is unconditional.  Whenever run_listen_session has         *)
(* returned, the engine is stopped, the tap removed, the request's audio   *)
(* ended and the recognition task cancelled.                               *)
C3_TeardownOnEveryReturn ==
    pc = "returned"
        => (engine # "running" /\ ~tap /\ request = "ended"
            /\ task = "cancelled")

(* C4: every invocation ends by returning one well-formed pair: no         *)
(* exception escapes, the outcome is in the closed set and the text is     *)
(* lastText.                                                               *)
C4_AlwaysReturnsPair ==
    /\ pc # "raised"
    /\ pc = "returned" => (ret.reason \in Reasons /\ ret.text = ctx.text)

(* C5: trigger priority.  An accepted transcript commits the highest-      *)
(* priority category it matches, in the order news, time, date, weather,   *)
(* stop-suffix command; a transcript with a news phrase that ends with the *)
(* stop suffix commits news.                                               *)
C5_TriggerPriority ==
    [][\A text \in Texts :
         (Delivers(Snapshot(text)) /\ text # ctx.text) =>
           /\ FirstMatch(text) # "none"
                => (ctx'.stop /\ ctx'.reason = FirstMatch(text))
           /\ FirstMatch(text) = "none"
                => (ctx'.stop = ctx.stop /\ ctx'.reason = ctx.reason)
           /\ (AnyIn(NEWS_TRIGGERS, text)
               /\ endswith(rstrip(text), STOP_SUFFIX))
                => ctx'.reason = "news"]_vars

C5_Witness ==
    /\ ctx.stop
    /\ ctx.reason = "news"
    /\ AnyIn(NEWS_TRIGGERS, ctx.text)
    /\ endswith(rstrip(ctx.text), STOP_SUFFIX)

(* C6: activation is one-way and happens once.  activated never goes back  *)
(* to false, t_activate is written only at the step that activates, and    *)
(* the activation notice is printed at most once.                          *)
C6_ActivationOnce ==
    [][/\ ctx.activated => (ctx'.activated /\ ctx'.t_activate = ctx.t_activate)
       /\ ctx'.t_activate # ctx.t_activate
            => (~ctx.activated /\ ctx'.activated /\ ctx'.t_activate = <<clock>>)
       /\ Cardinality({ i \in DOMAIN stdout' : stdout'[i] = Extended }) <= 1
      ]_vars

\* two different transcripts with a wake phrase were accepted, the second
\* one after the activation time
C6_Witness ==
    /\ Len(delivered) = 2
    /\ delivered[1].kind = "result" /\ AnyIn(WAKE_WORDS, delivered[1].text)
    /\ delivered[2].kind = "result" /\ AnyIn(WAKE_WORDS, delivered[2].text)
    /\ delivered[1].text # delivered[2].text
    /\ ctx.text = delivered[2].text
    /\ ctx.activated
    /\ ctx.t_activate # <<>>
    /\ ctx.t_activate[1] < clock

(* C7: activation resets the clock.  A poll that finds no committed        *)
(* outcome breaks on the deadline exactly when, after activation at a,     *)
(* now - a >= extended duration, and before activation, now - sessionStart *)
(* >= base duration.                                                       *)
C7_DeadlineFromActivation ==
    [][(LoopHead /\ ~ctx.stop) =>
         ((pc' = "stop_engine") <=>
            (IF ctx.activated
             THEN clock - ctx.t_activate[1] >= EXTENDED_TIMEOUT
             ELSE clock - ctx.t_start >= timeout))]_vars

\* the session was activated part-way through the base window and broke on
\* the deadline a full extended duration later
C7_Witness ==
    /\ pc = "stop_engine"
    /\ ~ctx.stop
    /\ ~sigint
    /\ ctx.activated
    /\ ctx.t_activate # <<>>
    /\ ctx.t_activate[1] > ctx.t_start
    /\ clock - ctx.t_activate[1] = EXTENDED_TIMEOUT
    /\ stdout[Len(stdout)] = Elapsed(EXTENDED_TIMEOUT)

(* C8: the active timeout duration never decreases: it starts at the       *)
(* timeout argument and is only ever replaced by a value at least as       *)
(* large, for every value of the timeout argument.                         *)
C8_TimeoutNeverDecreases ==
    [][ctx'.timeout >= ctx.timeout]_vars

(* C9: with no matching transcript, no error and no interrupt, the session *)
(* returns "timeout" and the last non-empty transcript that differed from  *)
(* its predecessor.                                                        *)
C9_TimeoutReturnsLastText ==
    (/\ pc = "returned"
     /\ engine = "stopped"
     /\ ~sigint
     /\ ~ErrorDelivered
     /\ \A i \in DOMAIN delivered :
          delivered[i].kind = "result"
            => \A k \in DOMAIN Priority :
                 ~MatchesKind(Priority[k], delivered[i].text))
    => ret = [text |-> LastDistinct(SnapTexts(delivered)),
              reason |-> "timeout"]

C9_Witness ==
    /\ pc = "returned"
    /\ engine = "stopped"
    /\ ~sigint
    /\ Len(delivered) = 2
    /\ \A i \in 1..2 :
         /\ delivered[i].kind = "result"
         /\ delivered[i].text # <<>>
         /\ FirstMatch(delivered[i].text) = "none"
    /\ delivered[1].text # delivered[2].text
    /\ ret = [text |-> delivered[2].text, reason |-> "timeout"]

(* C10: de-duplication.  A snapshot whose transcript is empty or equal to  *)
(* lastText changes nothing and prints nothing; lastText only changes to a *)
(* non-empty, different value; the terminal shows one line per change of   *)
(* transcript, so a run of identical snapshots shows one line.             *)
C10_Dedup ==
    [][\A text \in Inputs :
         Delivers(Snapshot(text)) =>
           /\ (text = <<>> \/ text = ctx.text)
                => (ctx' = ctx /\ stdout' = stdout)
           /\ ctx'.text # ctx.text
                => (ctx'.text = text /\ text # <<>>)
           /\ CountShown(stdout') = Changes(SnapTexts(delivered'), <<>>)
      ]_vars

\* the same transcript was delivered twice in a row and shown once
C10_Witness ==
    /\ Len(delivered) = 2
    /\ delivered[1] = delivered[2]
    /\ delivered[1].kind = "result"
    /\ delivered[1].text # <<>>
    /\ ctx.text = delivered[1].text
    /\ CountShown(stdout) = 1

(* C11: a snapshot with both a wake phrase and a trigger (or the stop      *)
(* suffix) has both effects in the same callback: the session is activated *)
(* with t_activate set, and the outcome is committed; the poll loop then   *)
(* leaves at its next test without waiting for the deadline, and with no   *)
(* later callback or interrupt the session returns that outcome.           *)
C11_WakeAndTriggerTogether ==
    /\ [][/\ \A text \in Texts :
               (/\ Delivers(Snapshot(text))
                /\ text # ctx.text
                /\ ~ctx.activated
                /\ AnyIn(WAKE_WORDS, text)
                /\ FirstMatch(text) # "none")
               => /\ ctx'.activated
                  /\ ctx'.t_activate = <<clock>>
                  /\ ctx'.stop
                  /\ ctx'.reason = FirstMatch(text)
          /\ (LoopHead /\ ctx.stop) => (pc' = "stop_engine" /\ stdout' = stdout)
         ]_vars
    /\ [](LET last == delivered[Len(delivered)]
          IN  (/\ pc = "returned"
               /\ ~sigint
               /\ delivered # <<>>
               /\ last.kind = "result"
               /\ last.text = ctx.text
               /\ AnyIn(WAKE_WORDS, last.text)
               /\ FirstMatch(last.text) # "none")
              => (/\ ret.reason = FirstMatch(last.text)
                  /\ ctx.activated
                  /\ stdout[Len(stdout)] = Newline))

\* the scenario of the design: "hello", then wake word and weather together
C11_Witness ==
    /\ pc = "returned"
    /\ ~sigint
    /\ Len(delivered) = 2
    /\ delivered[1] = Snapshot(Hello)
    /\ delivered[2].kind = "result"
    /\ AnyIn(WAKE_WORDS, delivered[2].text)
    /\ ctx.activated
    /\ ctx.t_activate = <<clock>>
    /\ clock > 0
    /\ clock < EXTENDED_TIMEOUT
    /\ ret = [text |-> delivered[2].text, reason |-> "weather"]

(* C12: an interrupt observed during the poll loop ends the session with   *)
(* "interrupt": from then on no poll slice runs, no callback is processed, *)
(* lastText keeps its value, and the session returns (lastText,            *)
(* "interrupt").                                                           *)
C12_InterruptEndsSession ==
    /\ [][/\ (KeyboardInterrupt /\ pc \in {"loop", "pump"})
               => (/\ pc' = "stop_engine"
                   /\ ctx'.reason = "interrupt"
                   /\ ctx'.text = ctx.text)
          /\ sigint => (/\ ctx' = ctx
                        /\ delivered' = delivered
                        /\ pc' \notin {"loop", "pump"})
         ]_vars
    /\ []((pc = "returned" /\ sigint)
            => ret = [text |-> ctx.text, reason |-> "interrupt"])

\* interrupted after a transcript was accepted, while the recognizer could
\* still have reported more
C12_Witness ==
    /\ pc = "returned"
    /\ sigint
    /\ Len(delivered) = 1
    /\ delivered[1].kind = "result"
    /\ ret = [text |-> delivered[1].text, reason |-> "interrupt"]
    /\ ret.text # <<>>

(* C17: the deadline test commits nothing once an outcome is committed.    *)
(* When ctx["stop"] is set, the poll loop leaves without the deadline      *)
(* message even if the deadline has elapsed, and the session does not      *)
(* return "timeout"; a returned "timeout" means no callback committed.     *)
C17_TimeoutOnlyIfUncommitted ==
    /\ [][(LoopHead /\ ctx.stop)
            => (ctx' = ctx /\ stdout' = stdout /\ pc' = "stop_engine")]_vars
    /\ []((pc = "returned" /\ ctx.stop) => ret.reason # "timeout")
    /\ []((pc = "returned" /\ ret.reason = "timeout")
            => (/\ ~ctx.stop
                /\ \A i \in DOMAIN delivered :
                     /\ delivered[i].kind # "error"
                     /\ delivered[i].kind = "result"
                          => FirstMatch(delivered[i].text) = "none"))

\* a trigger was committed in the slice in which the deadline elapsed
C17_Witness ==
    /\ pc = "returned"
    /\ ~sigint
    /\ ctx.stop
    /\ ~ctx.activated
    /\ clock - ctx.t_start >= ctx.timeout
    /\ ret.reason \in {"news", "time", "date", "weather", "command"}

\* the transcript ends with the stop suffix once trailing whitespace is
\* dropped
EndsWithStopSuffix(text) ==
    \E k \in 1..Len(text) :
        /\ endswith(SubSeq(text, 1, k), STOP_SUFFIX)
        /\ \A i \in (k + 1)..Len(text) : text[i] \in Whitespace

NoCategory(text) ==
    /\ ~AnyIn(NEWS_TRIGGERS, text)
    /\ ~AnyIn(TIME_TRIGGERS, text)
    /\ ~AnyIn(DATE_TRIGGERS, text)
    /\ ~AnyIn(WEATHER_TRIGGERS, text)

(* C18: an accepted snapshot with a wake phrase, no category trigger and   *)
(* no stop suffix only activates; one with no category that ends with the  *)
(* stop suffix (trailing whitespace ignored) commits "command"; one with   *)
(* neither commits nothing.                                                *)
C18_WakeOnlyAndCommand ==
    [][\A text \in Texts :
         (Delivers(Snapshot(text)) /\ text # ctx.text /\ NoCategory(text)) =>
           /\ EndsWithStopSuffix(text)
                => (ctx'.stop /\ ctx'.reason = "command")
           /\ ~EndsWithStopSuffix(text)
                => (ctx'.stop = ctx.stop /\ ctx'.reason = ctx.reason)
           /\ (AnyIn(WAKE_WORDS, text) /\ ~EndsWithStopSuffix(text))
                => (ctx'.activated /\ ctx'.t_activate # <<>>
                    /\ ctx'.timeout = EXTENDED_TIMEOUT)
           /\ ~AnyIn(WAKE_WORDS, text)
                => (/\ ctx'.activated = ctx.activated
                    /\ ctx'.t_activate = ctx.t_activate
                    /\ ctx'.timeout = ctx.timeout)
      ]_vars

\* a wake-only transcript left the session listening, then a stop-suffix
\* transcript with trailing whitespace committed "command"
C18_Witness ==
    /\ Len(delivered) = 2
    /\ delivered[1].kind = "result"
    /\ AnyIn(WAKE_WORDS, delivered[1].text)
    /\ FirstMatch(delivered[1].text) = "none"
    /\ delivered[2].kind = "result"
    /\ delivered[2].text = ctx.text
    /\ ctx.text[Len(ctx.text)] \in Whitespace
    /\ ctx.activated
    /\ ctx.stop
    /\ ctx.reason = "command"
    /\ clock > ctx.t_activate[1]

----------------------------------------------------------------------------
(* Vocabulary of the properties about main *)

\* the handler an outcome calls for: one per trigger kind, Command,
\* Interrupted and Error; Timeout has the silent default
ExpectedHandler(reason) ==
    CASE reason = "news"      -> "news"
      [] reason = "time"      -> "time"
      [] reason = "date"      -> "date"
      [] reason = "weather"   -> "weather"
      [] reason = "command"   -> "command"
      [] reason = "interrupt" -> "interrupt"
      [] reason = "error"     -> "error"
      [] reason = "timeout"   -> "other"

\* the handler a position of main belongs to
HandlerOf(at) ==
    IF at \in {"news", "news_intro", "news_summarize", "news_all",
               "news_item", "news_weather"}
    THEN "news" ELSE at

InHandler == mpc \notin {"session", "loop_top", "exited", "raised"}

\* what each handler may do
EffectsOf(handler) ==
    CASE handler = "news"      -> {"say_news_intro", "say_news_all",
                                   "say_news_item", "say_weather",
                                   "say_weather_unavailable",
                                   "print_news_failed"}
      [] handler = "time"      -> {"say_time"}
      [] handler = "date"      -> {"say_date"}
      [] handler = "weather"   -> {"say_weather", "say_weather_unavailable"}
      [] handler = "command"   -> {"print_final"}
      [] handler = "interrupt" -> {"print_interrupted"}
      [] handler = "error"     -> {"print_retry", "sleep"}
      [] handler = "other"     -> {"print_recognized"}

Terminating == {"command", "interrupt"}

Spoken == {i \in DOMAIN handled : handled[i] \in Speeches}

\* the session in progress: run_listen_session has been entered and has
\* not returned
Listening == pc \notin {"returned", "raised"}

----------------------------------------------------------------------------
(* C13: the session loop leaves (by break) exactly after a session that   *)
(* returned Command or Interrupted; after every other outcome the handler *)
(* ends at the loop top, from where the only step is the next call of     *)
(* run_listen_session; and the outcome selects exactly one handler: main  *)
(* enters the handler of the returned reason, stays in it, and does       *)
(* nothing that belongs to another handler. An exception that escapes     *)
(* (a SIGINT outside the try of the session, a failing TTS engine) ends   *)
(* the process in the state "raised", which is not an exit of the loop.   *)
C13_LoopExitsOnCommandOrInterrupt ==
    /\ [][/\ Dispatch => mpc' = ExpectedHandler(ret.reason)
          /\ (mpc' = "exited" /\ mpc # "exited")
               => (ret.reason \in Terminating /\ mpc = ret.reason)
          /\ (mpc' = "loop_top" /\ mpc # "loop_top")
               => (ret.reason \notin Terminating /\ InHandler)
          /\ (InHandler /\ ret.reason \in Terminating)
               => mpc' \in {mpc, "exited", "raised"}
          /\ (InHandler /\ ret.reason \notin Terminating) => mpc' # "exited"
          /\ (InHandler /\ mpc' # mpc)
               => \/ mpc' \in {"loop_top", "exited", "raised"}
                  \/ HandlerOf(mpc') = HandlerOf(mpc)
          /\ (mpc = "loop_top" /\ mpc' # mpc)
               => \/ mpc' = "session" /\ pc' = "task" /\ ret'.reason = "unset"
                  \/ mpc' = "raised"
          /\ (mpc' = "session" /\ mpc # "session") => mpc = "loop_top"
         ]_vars
    /\ [](InHandler => HandlerOf(mpc) = ExpectedHandler(ret.reason))
    /\ [](mpc = "exited" => ret.reason \in Terminating)
    /\ []((mpc # "session") =>
            \A i \in DOMAIN handled :
               handled[i] \in EffectsOf(ExpectedHandler(ret.reason)))

C13_Witness ==
    /\ mpc = "exited"
    /\ ret.reason = "command"
    /\ handled = <<"print_final">>
    /\ EndsWithStopSuffix(ret.text)
    /\ engine = "stopped"

----------------------------------------------------------------------------
(* C14: teardown (stop the engine, remove the tap, cancel the task) comes *)
(* between the commit of the outcome and the return, so that whenever     *)
(* main is in a handler the session it handles has no running engine, no  *)
(* installed tap and no running recognition task.                         *)
C14_NoHandlerWhileSessionActive ==
    InHandler => (engine # "running" /\ ~tap /\ task # "running")

----------------------------------------------------------------------------
(* C15: handlers are synchronous. While the TTS engine is speaking, main  *)
(* is inside the handler that called it and no session is listening; a    *)
(* session is entered only from the loop top, with the handler finished   *)
(* and the engine silent; while a session listens, main is inside that    *)
(* one call of run_listen_session, and the call before it has returned.   *)
C15_HandlersSynchronous ==
    /\ [](tts = "speaking" => (mpc \in SpeakPositions /\ ~Listening))
    /\ [](Listening => (mpc = "session" /\ tts = "idle" /\ handled = <<>>))
    /\ [][(pc' = "task" /\ pc # "task")
            => (mpc = "loop_top" /\ pc = "returned" /\ tts = "idle"
                /\ mpc' = "session")]_vars
    /\ [][(tts = "speaking" /\ mpc' # mpc) => tts' = "idle"]_vars

C15_Witness ==
    /\ tts = "speaking"
    /\ mpc = "news_item"
    /\ pending = 1
    /\ Len(handled) = 3
    /\ pc = "returned"
    /\ engine = "stopped"
    /\ task = "cancelled"

----------------------------------------------------------------------------
(* C16: nothing of a session's state survives into the next one. The call *)
(* of run_listen_session at the loop top builds a new context: text       *)
(* empty, activated false, t_activate unset, the base timeout, no commit  *)
(* (stop false, reason at its default), whatever the context of the       *)
(* session before held; and no callback of the old session counts for it. *)
C16_FreshSessionState ==
    /\ [][(pc' = "task" /\ pc # "task")
            => /\ ctx'.text = <<>>
               /\ ~ctx'.activated
               /\ ctx'.t_activate = <<>>
               /\ ctx'.timeout = DEFAULT_TIMEOUT
               /\ ~ctx'.stop
               /\ ctx'.reason = "timeout"
               /\ ctx'.t_start = clock'
               /\ delivered' = <<>>
               /\ engine' = "idle" /\ ~tap' /\ task' = "none"]_vars
    /\ [](pc = "task" => (ctx = FreshContext(clock, DEFAULT_TIMEOUT)
                          /\ ret.reason = "unset"))

\* the loop is about to call run_listen_session again after a session that
\* was activated, had its window extended, and ended by a trigger
C16_Witness ==
    /\ mpc = "loop_top"
    /\ ctx.activated
    /\ ctx.t_activate # <<>>
    /\ ctx.timeout = EXTENDED_TIMEOUT
    /\ ctx.text # <<>>
    /\ ctx.stop
    /\ ret.reason = "weather"
    /\ Spoken # {}

----------------------------------------------------------------------------
(* C20: the outcomes that are not spoken. After Timeout main goes to the  *)
(* next session without a call of the TTS engine and without a pause;     *)
(* after Error it prints, sleeps, calls no TTS, and goes to the next      *)
(* session; the error branch never leaves the loop.                       *)
C20_SilentOutcomes ==
    /\ []((mpc # "session" /\ ret.reason \in {"timeout", "error"})
            => (tts = "idle" /\ Spoken = {} /\ mpc # "exited"))
    /\ [][(mpc # "session" /\ mpc' = "session")
            => /\ ret.reason = "timeout"
                    => handled \in {<<>>, <<"print_recognized">>}
               /\ ret.reason = "error" => handled = <<"print_retry", "sleep">>
               /\ ret.reason \in {"timeout", "error"}
                    => (pc' = "task" /\ ctx' = FreshContext(0, DEFAULT_TIMEOUT))
         ]_vars
    /\ [][(mpc = "error" /\ mpc' # mpc)
            => \/ mpc' = "loop_top" /\ handled' = <<"print_retry", "sleep">>
               \/ mpc' = "raised" /\ sigint']_vars
    /\ [][(mpc = "other" /\ mpc' # mpc)
            => \/ mpc' = "loop_top"
               \/ mpc' = "raised" /\ sigint']_vars

\* the recognizer reported an error after a snapshot; main has slept and
\* is about to start the next session
C20_Witness ==
    /\ mpc = "loop_top"
    /\ ret.reason = "error"
    /\ ret.text # <<>>
    /\ \E i \in DOMAIN delivered : delivered[i].kind = "error"
    /\ handled = <<"print_retry", "sleep">>
    /\ task = "cancelled"

----------------------------------------------------------------------------
(* C19: with on_result on a thread of its own, whatever the interleaving, *)
(* the poll loop finds ctx consistent: whenever activated is true,        *)
(* t_activate is set, and so the deadline test at lines 628-629 never     *)
(* subtracts an unset activation time.                                    *)
C19_ActivatedImpliesActivationTime ==
    /\ (pc = "loop" /\ ~ctx.stop /\ ctx.activated) => ctx.t_activate # <<>>
    /\ (pc = "raised") => sigint

----------------------------------------------------------------------------
(* Vocabulary of the properties about the timed session *)

\* the session has ended: it has returned, or an exception has left it
Ended == pc \in {"returned", "raised"}

\* the session ran into its deadline: no trigger, no command, no error, no
\* interrupt
TimedOut == pc = "returned" /\ ret.reason = "timeout"

\* the deadline in force
Deadline(c) ==
    IF c.activated THEN c.t_activate[1] + EXTENDED_TIMEOUT
                   ELSE c.t_start + c.timeout

----------------------------------------------------------------------------
(* C21 as stated, its bound: with the default base duration a session     *)
(* that ends by the deadline returns no later than one poll slice after   *)
(* sessionStart + base + extended.                                        *)
C21_ReturnsWithinOneSlice ==
    TimedOut =>
        clock <= ctx.t_start + DEFAULT_TIMEOUT + EXTENDED_TIMEOUT + SliceLen

(* C21 amended: every session ends (it returns, or a SIGINT outside the   *)
(* try leaves it as KeyboardInterrupt), given that the main thread runs   *)
(* and time passes in the slices; the reference of the deadline moves at  *)
(* most once, to an activation that comes no later than one slice after   *)
(* sessionStart + base; and a session that ends by the deadline returns   *)
(* less than one slice after that deadline, so no later than two slices   *)
(* after sessionStart + base + extended.                                  *)
C21_SessionTerminates ==
    /\ <>Ended
    /\ [](pc = "raised" => sigint)
    /\ [][ctx.t_activate # <<>> => ctx'.t_activate = ctx.t_activate]_vars
    /\ [](ctx.activated
            => ctx.t_activate[1] <= ctx.t_start + DEFAULT_TIMEOUT + SliceLen)
    /\ [](TimedOut => /\ clock >= Deadline(ctx)
                      /\ clock < Deadline(ctx) + SliceLen
                      /\ clock <= ctx.t_start + DEFAULT_TIMEOUT
                                  + EXTENDED_TIMEOUT + 2 * SliceLen)

\* the case the stated bound misses: the wake word arrived in the slice
\* that ran past sessionStart + base, and the session returned more than
\* one slice after sessionStart + base + extended
C21_Witness ==
    /\ TimedOut
    /\ ctx.activated
    /\ ctx.t_activate[1] > ctx.t_start + DEFAULT_TIMEOUT
    /\ clock > ctx.t_start + DEFAULT_TIMEOUT + EXTENDED_TIMEOUT + SliceLen
    /\ Len(delivered) = MaxCallbacks

----------------------------------------------------------------------------
(* C22: after a News outcome the handler speaks the summaries and then,   *)
(* as the last speech before the next session, the weather closing; when  *)
(* the fetch of the news yields nothing it still speaks a fallback; and   *)
(* no exception of the handler reaches the session loop (main is left     *)
(* only by a SIGINT).                                                     *)
C22_NewsSpokenThenWeather ==
    (mpc # "session" /\ ret.reason = "news") =>
        /\ mpc = "loop_top" =>
             /\ Spoken # {}
             /\ \A i \in Spoken : i < Len(handled) =>
                   handled[i] \notin {"say_weather", "say_weather_unavailable"}
             /\ ("say_news_intro" \in {handled[i] : i \in Spoken})
                  => /\ handled[Len(handled)] \in {"say_weather",
                                                   "say_weather_unavailable"}
                     /\ \E i \in Spoken :
                           handled[i] \in {"say_news_item", "say_news_all"}
        /\ mpc = "raised" => sigint

====
